---- MODULE Spec2Model ----
(***************************************************************************)
(* A model of the move-selection core of src/lambdafunction.py: the        *)
(* Safety Filter (get_safe_moves, is_risky_head_collision), the Space      *)
(* Evaluator (evaluate_move_space), the Target Seeker                      *)
(* (find_nearest_food, get_move_toward_target) and the Move Selector       *)
(* (choose_best_move).                                                     *)
(*                                                                         *)
(* A JSON point {"x": .., "y": ..} is the record [x |-> .., y |-> ..]; a   *)
(* Python tuple is a TLA+ tuple; a Python list is a sequence; Python's     *)
(* None is the string "None" where a string is returned and the empty      *)
(* tuple where a point is (the point p is then <<p>>).                     *)
(***************************************************************************)
EXTENDS Integers, Sequences, FiniteSets, TLC

(***************************************************************************)
(* Bounds of the model.                                                    *)
(***************************************************************************)
MaxW == 3          \* board widths 1..MaxW
MaxH == 3          \* board heights 1..MaxH
MaxLen == 3        \* body lengths 1..MaxLen
MaxOthers == 1     \* snakes on the board besides the acting one
MaxItems == 2      \* other snakes plus food items on the board
MaxCalls == 2      \* calls of choose_best_move on one snapshot
MaxObstacles == 3  \* obstacle cells handed to evaluate_move_space alone
CapSide == 7       \* the boards around the cap: CapSide wide, CapSide or CapSide+1 high

(***************************************************************************)
(* Constants of the program.                                               *)
(***************************************************************************)
min_acceptable_space == 5
max_iterations == 50
low_health == 30

Directions == <<"up", "down", "left", "right">>

DirectionSet == {Directions[i] : i \in 1..Len(Directions)}

Abs(n) == IF n < 0 THEN -n ELSE n

VARIABLES
    body,   \* the Turn Snapshot handed to choose_best_move
    calls,  \* how many times choose_best_move ran on this snapshot
    prev,   \* the direction the call before the last returned
    last,   \* the last call: the direction it returned (move) and its locals
            \* safe_moves, move_scores and good_moves when it returned
    probe,  \* the arguments of a call of evaluate_move_space on its own
    reached \* what that call returned (0 before it: the code returns >= 1)

vars == <<body, calls, prev, last, probe, reached>>

(***************************************************************************)
(* evaluate_move_space: the capped breadth-first flood fill.               *)
(***************************************************************************)
Neighbours == << <<0, 1>>, <<0, -1>>, <<1, 0>>, <<-1, 0>> >>

CellOpen(new_x, new_y, board_width, board_height, visited, obstacles) ==
    /\ 0 <= new_x /\ new_x < board_width
    /\ 0 <= new_y /\ new_y < board_height
    /\ <<new_x, new_y>> \notin visited
    /\ <<new_x, new_y>> \notin obstacles

RECURSIVE ScanNeighbours(_, _, _, _, _, _, _)
ScanNeighbours(i, cx, cy, board_width, board_height, obstacles, st) ==
    IF i > Len(Neighbours) THEN st
    ELSE LET new_x == cx + Neighbours[i][1]
             new_y == cy + Neighbours[i][2]
         IN  ScanNeighbours(i + 1, cx, cy, board_width, board_height, obstacles,
                 IF CellOpen(new_x, new_y, board_width, board_height,
                             st.visited, obstacles)
                 THEN [visited |-> st.visited \cup {<<new_x, new_y>>},
                       queue |-> Append(st.queue, <<new_x, new_y>>)]
                 ELSE st)

\* A faulty variant: the cap tested after the cell is counted.
LoopRuns_inclusive(queue, space) == queue # <<>> /\ space <= max_iterations

LoopRuns(queue, space) == queue # <<>> /\ space < max_iterations

RECURSIVE FloodLoop(_, _, _, _, _, _)
FloodLoop(queue, visited, space, board_width, board_height, obstacles) ==
    IF ~LoopRuns(queue, space) THEN space
    ELSE LET cx == Head(queue)[1]
             cy == Head(queue)[2]
             st == ScanNeighbours(1, cx, cy, board_width, board_height, obstacles,
                       [visited |-> visited, queue |-> Tail(queue)])
         IN  FloodLoop(st.queue, st.visited, space + 1,
                       board_width, board_height, obstacles)

evaluate_move_space(nx, ny, board_width, board_height, obstacles) ==
    FloodLoop(<< <<nx, ny>> >>, {<<nx, ny>>}, 0,
              board_width, board_height, obstacles)

(***************************************************************************)
(* is_risky_head_collision and get_safe_moves: the Safety Filter.          *)
(***************************************************************************)
enemy_possible_moves(snake_head) ==
    { <<snake_head.x + 1, snake_head.y>>, <<snake_head.x - 1, snake_head.y>>,
      <<snake_head.x, snake_head.y + 1>>, <<snake_head.x, snake_head.y - 1>> }

\* A faulty variant: only a strictly longer snake is a risk.
is_risky_head_collision_strict(nx, ny, b) ==
    LET my_length == Len(b.you.body)
    IN  \E k \in 1..Len(b.board.snakes) :
            LET snake == b.board.snakes[k]
            IN  /\ snake.id # b.you.id
                /\ <<nx, ny>> \in enemy_possible_moves(snake.head)
                /\ Len(snake.body) > my_length

is_risky_head_collision(nx, ny, b) ==
    LET my_length == Len(b.you.body)
    IN  \E k \in 1..Len(b.board.snakes) :
            LET snake == b.board.snakes[k]
            IN  /\ snake.id # b.you.id
                /\ <<nx, ny>> \in enemy_possible_moves(snake.head)
                /\ Len(snake.body) >= my_length

all_snake_bodies(b) ==
    UNION { { <<b.board.snakes[k].body[i].x, b.board.snakes[k].body[i].y>> :
                i \in 1..(Len(b.board.snakes[k].body) - 1) } :
            k \in 1..Len(b.board.snakes) }

\* A faulty variant: y taken to grow downward.
moves_flipped(x, y) ==
    << <<"up", x, y - 1>>, <<"down", x, y + 1>>,
       <<"left", x - 1, y>>, <<"right", x + 1, y>> >>

moves(x, y) ==
    << <<"up", x, y + 1>>, <<"down", x, y - 1>>,
       <<"left", x - 1, y>>, <<"right", x + 1, y>> >>

\* A faulty variant: the far walls tested with <=.
InBounds_inclusive(nx, ny, board_width, board_height) ==
    0 <= nx /\ nx <= board_width /\ 0 <= ny /\ ny <= board_height

InBounds(nx, ny, board_width, board_height) ==
    0 <= nx /\ nx < board_width /\ 0 <= ny /\ ny < board_height

\* A faulty variant: the body collision test left out.
MoveIsSafe_unchecked(m, b) ==
    /\ InBounds(m[2], m[3], b.board.width, b.board.height)
    /\ ~is_risky_head_collision(m[2], m[3], b)

MoveIsSafe(m, b) ==
    /\ InBounds(m[2], m[3], b.board.width, b.board.height)
    /\ <<m[2], m[3]>> \notin all_snake_bodies(b)
    /\ ~is_risky_head_collision(m[2], m[3], b)

get_safe_moves(b) ==
    SelectSeq(moves(b.you.head.x, b.you.head.y), LAMBDA m : MoveIsSafe(m, b))

(***************************************************************************)
(* find_nearest_food and get_move_toward_target: the Target Seeker.  The   *)
(* running minimum starts at float('inf'): acc.set is FALSE until a first  *)
(* distance replaced it.                                                   *)
(***************************************************************************)
Closer(distance, acc) == ~acc.set \/ distance < acc.distance

RECURSIVE NearestLoop(_, _, _, _, _)
NearestLoop(i, head_x, head_y, food_list, acc) ==
    IF i > Len(food_list) THEN acc.item
    ELSE LET food == food_list[i]
             distance == Abs(food.x - head_x) + Abs(food.y - head_y)
         IN  NearestLoop(i + 1, head_x, head_y, food_list,
                 IF Closer(distance, acc)
                 THEN [set |-> TRUE, distance |-> distance, item |-> <<food>>]
                 ELSE acc)

find_nearest_food(head_x, head_y, food_list) ==
    IF food_list = <<>> THEN <<>>
    ELSE NearestLoop(1, head_x, head_y, food_list,
                     [set |-> FALSE, distance |-> 0, item |-> <<>>])

RECURSIVE TowardLoop(_, _, _, _, _)
TowardLoop(i, target_x, target_y, move_options, acc) ==
    IF i > Len(move_options) THEN acc.item
    ELSE LET move_info == move_options[i]
             distance == Abs(target_x - move_info[2]) + Abs(target_y - move_info[3])
         IN  TowardLoop(i + 1, target_x, target_y, move_options,
                 IF Closer(distance, acc)
                 THEN [set |-> TRUE, distance |-> distance, item |-> move_info[1]]
                 ELSE acc)

get_move_toward_target(head_x, head_y, target_x, target_y, move_options) ==
    TowardLoop(1, target_x, target_y, move_options,
               [set |-> FALSE, distance |-> 0, item |-> "None"])

(***************************************************************************)
(* choose_best_move: the Move Selector.                                    *)
(***************************************************************************)
\* A faulty variant: the Safety Filter's set, tails left out, reused for the scores.
obstacles_notail(b) == all_snake_bodies(b)

obstacles(b) ==
    UNION { { <<b.board.snakes[k].body[i].x, b.board.snakes[k].body[i].y>> :
                i \in 1..Len(b.board.snakes[k].body) } :
            k \in 1..Len(b.board.snakes) }

RECURSIVE ScoreLoop(_, _, _, _, _, _)
ScoreLoop(i, safe, board_width, board_height, obs, scored) ==
    IF i > Len(safe) THEN scored
    ELSE ScoreLoop(i + 1, safe, board_width, board_height, obs,
             Append(scored,
                    <<safe[i][1], safe[i][2], safe[i][3],
                      evaluate_move_space(safe[i][2], safe[i][3],
                                          board_width, board_height, obs)>>))

ScoreMoves(safe, b) ==
    ScoreLoop(1, safe, b.board.width, b.board.height, obstacles(b), <<>>)

\* A faulty variant: the trap filter left out.
GoodMoves_unfiltered(scored) == scored

GoodMoves(scored) ==
    LET good == SelectSeq(scored, LAMBDA m : m[4] >= min_acceptable_space)
    IN  IF good = <<>> THEN scored ELSE good

\* Python's max(list, key): the first element whose key no element exceeds.
RECURSIVE MaxLoop(_, _, _)
MaxLoop(i, seq, best) ==
    IF i > Len(seq) THEN best
    ELSE MaxLoop(i + 1, seq, IF seq[i][4] > best[4] THEN seq[i] ELSE best)

\* A faulty variant: the last of the largest, not the first.
MaxBySpace_last(seq) ==
    IF seq = <<>> THEN <<"ValueError", 0, 0, 0>>
    ELSE seq[CHOOSE i \in 1..Len(seq) :
               /\ \A j \in 1..Len(seq) : seq[j][4] <= seq[i][4]
               /\ \A j \in (i + 1)..Len(seq) : seq[j][4] < seq[i][4]]

MaxBySpace(seq) ==
    IF seq = <<>> THEN <<"ValueError", 0, 0, 0>> ELSE MaxLoop(2, seq, seq[1])

Hungry(health, food_list) == health < low_health /\ food_list # <<>>

SelectMove(b, good) ==
    LET head == b.you.head
        nearest_food == find_nearest_food(head.x, head.y, b.board.food)
        food_move == IF nearest_food # <<>>
                     THEN get_move_toward_target(head.x, head.y,
                              nearest_food[1].x, nearest_food[1].y, good)
                     ELSE "None"
    IN  IF Hungry(b.you.health, b.board.food) /\ food_move # "None"
        THEN food_move
        ELSE MaxBySpace(good)[1]

\* A faulty variant: the fallback left out; max() of an empty list raises ValueError.
choose_best_move_nofallback(b) ==
    LET safe == get_safe_moves(b)
        scored == ScoreMoves(safe, b)
        good == GoodMoves(scored)
    IN  { [move |-> IF safe = <<>> THEN MaxBySpace(good)[1] ELSE SelectMove(b, good),
           safe_moves |-> safe, move_scores |-> scored, good_moves |-> good] }

\* A faulty variant: ties for the largest space broken at random.
choose_best_move_anytie(b) ==
    LET safe == get_safe_moves(b)
    IN  IF safe = <<>>
        THEN { [move |-> rnd, safe_moves |-> safe,
                move_scores |-> <<>>, good_moves |-> <<>>] : rnd \in DirectionSet }
        ELSE LET scored == ScoreMoves(safe, b)
                 good == GoodMoves(scored)
             IN  { [move |-> good[i][1], safe_moves |-> safe,
                    move_scores |-> scored, good_moves |-> good] :
                   i \in { k \in 1..Len(good) : good[k][4] = MaxBySpace(good)[4] } }

\* The call's outcomes: the direction returned, with the call's locals.  The
\* fallback's random.choice may return any of the four labels.
choose_best_move(b) ==
    LET safe == get_safe_moves(b)
    IN  IF safe = <<>>
        THEN { [move |-> rnd, safe_moves |-> safe,
                move_scores |-> <<>>, good_moves |-> <<>>] : rnd \in DirectionSet }
        ELSE LET scored == ScoreMoves(safe, b)
                 good == GoodMoves(scored)
             IN  { [move |-> SelectMove(b, good), safe_moves |-> safe,
                    move_scores |-> scored, good_moves |-> good] }

(***************************************************************************)
(* Turn Snapshots.  A body is a self-avoiding chain of adjacent cells, its *)
(* tail cell possibly repeated (a snake at its spawn point, or one that    *)
(* just ate); the snakes of a board occupy disjoint cells, and food lies   *)
(* on cells no snake occupies.  The acting snake is listed first in        *)
(* board.snakes (no loop of the code depends on the order), and you is     *)
(* that entry.                                                             *)
(***************************************************************************)
Cells(w, h) == { [x |-> i, y |-> j] : i \in 0..(w - 1), j \in 0..(h - 1) }

Adjacent(p, q) == Abs(p.x - q.x) + Abs(p.y - q.y) = 1

Range(seq) == { seq[i] : i \in 1..Len(seq) }

Extends(c, q) ==
    LET n == Len(c)
    IN  \/ q = c[n]
        \/ /\ Adjacent(c[n], q)
           /\ q \notin Range(c)
           /\ (n >= 2 => c[n] # c[n - 1])

RECURSIVE BodiesOfLen(_, _, _)
BodiesOfLen(n, w, h) ==
    IF n = 1 THEN { <<p>> : p \in Cells(w, h) }
    ELSE { Append(c, q) : <<c, q>> \in
             { cq \in BodiesOfLen(n - 1, w, h) \X Cells(w, h) : Extends(cq[1], cq[2]) } }

Bodies(w, h) == UNION { BodiesOfLen(n, w, h) : n \in 1..MaxLen }

RECURSIVE OtherBodies(_, _, _, _)
OtherBodies(n, w, h, taken) ==
    IF n = 0 THEN { <<>> }
    ELSE UNION { { <<c>> \o rest : rest \in OtherBodies(n - 1, w, h, taken \cup Range(c)) } :
                 c \in { d \in Bodies(w, h) : Range(d) \cap taken = {} } }

RECURSIVE FoodLists(_, _)
FoodLists(n, cells) ==
    IF n = 0 THEN { <<>> }
    ELSE UNION { { <<p>> \o rest : rest \in FoodLists(n - 1, cells \ {p}) } : p \in cells }

OtherIds == <<"s1", "s2", "s3">>

Healths == {low_health - 1, low_health}

Snake(id, segs, health) ==
    [id |-> id, body |-> segs, head |-> segs[1], health |-> health]

Snapshot(w, h, mine, others, food, health) ==
    [board |-> [width |-> w, height |-> h, food |-> food,
                snakes |-> <<Snake("me", mine, health)>> \o
                           [k \in 1..Len(others) |-> Snake(OtherIds[k], others[k], 100)]],
     you |-> Snake("me", mine, health)]

Pt(x, y) == [x |-> x, y |-> y]

\* The spec's example: an 11x11 board, one snake of length 3 that came to
\* (5,5) from (5,4), health 50, no food.
Example == Snapshot(11, 11, <<Pt(5, 5), Pt(5, 4), Pt(5, 3)>>, <<>>, <<>>, 50)

\* A corridor 1 wide and 24 high, a snake of length 1 at (0,3), health 100:
\* 3 free cells below it and 20 above.
Corridor == Snapshot(1, 24, <<Pt(0, 3)>>, <<>>, <<>>, 100)

Scenarios == {Example, Corridor}

NoCall == [move |-> "None", safe_moves |-> <<>>, move_scores |-> <<>>, good_moves |-> <<>>]

NoProbe == [nx |-> 0, ny |-> 0, board_width |-> 0, board_height |-> 0, obstacles |-> {}]

NoSnapshot == Snapshot(1, 1, <<Pt(0, 0)>>, <<>>, <<>>, 100)

Occupied(mine, others) ==
    Range(mine) \cup UNION { Range(others[k]) : k \in 1..Len(others) }

InitSnapshot ==
    \/ body \in Scenarios
    \/ \E w \in 1..MaxW, h \in 1..MaxH :
         \E mine \in Bodies(w, h) :
           \E n \in 0..MaxOthers :
             \E others \in OtherBodies(n, w, h, Range(mine)) :
               \E nf \in 0..(MaxItems - n) :
                 \E food \in FoodLists(nf, Cells(w, h) \ Occupied(mine, others)) :
                   \E health \in Healths :
                     body = Snapshot(w, h, mine, others, food, health)

Init ==
    /\ InitSnapshot
    /\ calls = 0
    /\ prev = "None"
    /\ last = NoCall
    /\ probe = NoProbe
    /\ reached = 0

Call ==
    /\ last' \in choose_best_move(body)
    /\ prev' = last.move
    /\ calls' = calls + 1
    /\ UNCHANGED <<body, probe, reached>>

\* The /move handler: one run of choose_best_move on the posted snapshot.
Move == calls = 0 /\ Call

\* The same snapshot posted again.
Repeat == calls >= 1 /\ calls < MaxCalls /\ Call

Next == Move

Spec == Init /\ [][Next]_vars

NextRepeat == Move \/ Repeat

SpecRepeat == Init /\ [][NextRepeat]_vars

(***************************************************************************)
(* evaluate_move_space on its own: every start cell of a small board with  *)
(* up to MaxObstacles obstacle cells, and of the boards whose cell count   *)
(* is around max_iterations with at most one obstacle cell.                *)
(***************************************************************************)
Pairs(w, h) == { <<i, j>> : i \in 0..(w - 1), j \in 0..(h - 1) }

RECURSIVE SubsetsUpTo(_, _)
SubsetsUpTo(n, cells) ==
    IF n = 0 THEN { {} }
    ELSE LET smaller == SubsetsUpTo(n - 1, cells)
         IN  smaller \cup { s \cup {c} : s \in smaller, c \in cells }

Probe(nx, ny, w, h, obs) ==
    [nx |-> nx, ny |-> ny, board_width |-> w, board_height |-> h, obstacles |-> obs]

InitProbe ==
    \/ \E w \in 1..MaxW, h \in 1..MaxH :
         \E obs \in SubsetsUpTo(MaxObstacles, Pairs(w, h)) :
           \E start \in Pairs(w, h) :
             probe = Probe(start[1], start[2], w, h, obs)
    \/ \E w \in {CapSide}, h \in CapSide..(CapSide + 1) :
         \E obs \in SubsetsUpTo(1, Pairs(w, h)) :
           \E start \in Pairs(w, h) :
             probe = Probe(start[1], start[2], w, h, obs)

InitSpace ==
    /\ InitProbe
    /\ reached = 0
    /\ body = NoSnapshot
    /\ calls = 0
    /\ prev = "None"
    /\ last = NoCall

EvaluateSpace ==
    /\ reached = 0
    /\ reached' = evaluate_move_space(probe.nx, probe.ny, probe.board_width,
                                      probe.board_height, probe.obstacles)
    /\ UNCHANGED <<body, calls, prev, last, probe>>

NextSpace == EvaluateSpace

SpecSpace == InitSpace /\ [][NextSpace]_vars

(***************************************************************************)
(* What the claims speak of, stated apart from the code above.             *)
(***************************************************************************)
Called == calls >= 1

Labels == {"up", "down", "left", "right"}

\* Where the head lands: up = y+1, down = y-1, left = x-1, right = x+1.
Destination(b, d) ==
    LET hd == b.you.head
    IN  CASE d = "up"    -> Pt(hd.x, hd.y + 1)
          [] d = "down"  -> Pt(hd.x, hd.y - 1)
          [] d = "left"  -> Pt(hd.x - 1, hd.y)
          [] d = "right" -> Pt(hd.x + 1, hd.y)

OnBoard(b, p) ==
    p.x \in 0..(b.board.width - 1) /\ p.y \in 0..(b.board.height - 1)

AllSnakes(b) == Range(b.board.snakes)

\* Every body segment of every snake except each snake's last one.
ObstacleSet(b) ==
    { p \in UNION { Range(sn.body) : sn \in AllSnakes(b) } :
        \E sn \in AllSnakes(b) : \E i \in 1..(Len(sn.body) - 1) : sn.body[i] = p }

\* Every body segment of every snake, the last one too.
AllSegments(b) == UNION { Range(sn.body) : sn \in AllSnakes(b) }

TailCells(b) == { sn.body[Len(sn.body)] : sn \in AllSnakes(b) }

RiskyHeadToHead(b, p) ==
    \E sn \in AllSnakes(b) :
        /\ sn.id # b.you.id
        /\ Len(sn.body) >= Len(b.you.body)
        /\ Abs(sn.head.x - p.x) + Abs(sn.head.y - p.y) = 1

Survives(b, d) ==
    /\ OnBoard(b, Destination(b, d))
    /\ Destination(b, d) \notin ObstacleSet(b)
    /\ ~RiskyHeadToHead(b, Destination(b, d))

Rank(d) == CHOOSE i \in 1..4 : <<"up", "down", "left", "right">>[i] = d

Distance(p, q) == Abs(p.x - q.x) + Abs(p.y - q.y)

\* The free cells 4-connected to start on a w x h board, start counted.
FreeAround(p, w, h, blocked) ==
    { q \in { Pt(p.x, p.y + 1), Pt(p.x, p.y - 1), Pt(p.x + 1, p.y), Pt(p.x - 1, p.y) } :
        /\ q.x \in 0..(w - 1) /\ q.y \in 0..(h - 1)
        /\ q \notin blocked }

RECURSIVE Grow(_, _, _, _, _)
Grow(seen, frontier, w, h, blocked) ==
    IF frontier = {} THEN seen
    ELSE LET found == UNION { FreeAround(p, w, h, blocked) : p \in frontier } \ seen
         IN  Grow(seen \cup found, found, w, h, blocked)

ComponentSize(start, w, h, blocked) ==
    Cardinality(Grow({start}, {start}, w, h, blocked))

CappedCount(start, w, h, blocked) ==
    LET size == ComponentSize(start, w, h, blocked)
    IN  IF size < 50 THEN size ELSE 50

\* The first index of a sequence of numbers that holds its least one.
FirstLeast(keys) ==
    CHOOSE i \in 1..Len(keys) :
        /\ \A j \in 1..Len(keys) : keys[i] <= keys[j]
        /\ \A j \in 1..(i - 1) : keys[i] < keys[j]

\* The first index of a sequence of numbers that holds its greatest one.
FirstGreatest(keys) ==
    CHOOSE i \in 1..Len(keys) :
        /\ \A j \in 1..Len(keys) : keys[i] >= keys[j]
        /\ \A j \in 1..(i - 1) : keys[i] > keys[j]

\* The candidate set food-seeking runs over: the scored candidates that
\* reach 5, or all of them when none does.
CurrentCandidates(scored) ==
    IF \E i \in 1..Len(scored) : scored[i][4] >= 5
    THEN SelectSeq(scored, LAMBDA m : m[4] >= 5)
    ELSE scored

FoodSeeking(b) == b.you.health < 30 /\ b.board.food # <<>>

NearestFood(b) ==
    b.board.food[FirstLeast([i \in 1..Len(b.board.food) |->
                                Distance(b.board.food[i], b.you.head)])]

TowardFood(b, cands) ==
    cands[FirstLeast([i \in 1..Len(cands) |->
                         Distance(Pt(cands[i][2], cands[i][3]), NearestFood(b))])]

MostSpace(scored) ==
    scored[FirstGreatest([i \in 1..Len(scored) |-> scored[i][4]])]

SomeSafe == Called /\ last.safe_moves # <<>>

(***************************************************************************)
(* C1: for every well-formed snapshot choose_best_move returns one of the  *)
(* four labels up, down, left, right, also when get_safe_moves returns no  *)
(* candidate.                                                              *)
(***************************************************************************)
C1_AlwaysAnswers == Called => last.move \in Labels

C1_Witness ==
    /\ Called
    /\ get_safe_moves(body) = <<>>
    /\ last.move \in Labels

(***************************************************************************)
(* C2, as claimed: if at least one of the four candidates lies on the      *)
(* board and avoids the obstacle set, the returned move's destination is   *)
(* not in the obstacle set.                                                *)
(***************************************************************************)
C2_Original ==
    (Called /\ \E d \in Labels : /\ OnBoard(body, Destination(body, d))
                                 /\ Destination(body, d) \notin ObstacleSet(body))
        => Destination(body, last.move) \notin ObstacleSet(body)

(***************************************************************************)
(* C2, amended: if get_safe_moves returns at least one candidate, the      *)
(* returned move's destination is not in the obstacle set.                 *)
(***************************************************************************)
C2_NoCollisionWhenSafe ==
    SomeSafe => Destination(body, last.move) \notin ObstacleSet(body)

C2_Witness ==
    /\ SomeSafe
    /\ \E d \in Labels : Destination(body, d) \in ObstacleSet(body)
    /\ Destination(body, last.move) \notin ObstacleSet(body)

(***************************************************************************)
(* C3: whenever get_safe_moves returns at least one candidate, the         *)
(* destination of the returned direction lies within                       *)
(* [0, width) x [0, height).                                               *)
(***************************************************************************)
C3_BoundsRespected == SomeSafe => OnBoard(body, Destination(body, last.move))

C3_Witness ==
    /\ SomeSafe
    /\ \E d \in Labels : ~OnBoard(body, Destination(body, d))
    /\ OnBoard(body, Destination(body, last.move))

(***************************************************************************)
(* C4: evaluate_move_space never returns more than 50, and returns exactly *)
(* the size of the 4-connected component of free cells around the start    *)
(* point, the start counted, when that size is below 50.                   *)
(***************************************************************************)
ProbeComponent ==
    ComponentSize(Pt(probe.nx, probe.ny), probe.board_width, probe.board_height,
                  { Pt(c[1], c[2]) : c \in probe.obstacles })

C4_FloodFillCap ==
    reached > 0 =>
        /\ reached <= 50
        /\ ProbeComponent < 50 => reached = ProbeComponent

C4_Witness ==
    /\ reached = 50
    /\ probe.obstacles # {}
    /\ ProbeComponent > 50

(***************************************************************************)
(* C5: when health is below 30, the board has food and a safe move exists, *)
(* choose_best_move returns the first candidate, in up, down, left, right  *)
(* order, nearest in Manhattan distance to the nearest food (the first     *)
(* such in food-list order from the head), among the safe candidates that  *)
(* score 5 or more, or among all of them if none does.                     *)
(***************************************************************************)
C5_FoodPriority ==
    (SomeSafe /\ FoodSeeking(body))
        => last.move = TowardFood(body, CurrentCandidates(last.move_scores))[1]

C5_Witness ==
    /\ SomeSafe
    /\ FoodSeeking(body)
    /\ last.move # MostSpace(last.move_scores)[1]
    /\ \E i \in 1..Len(last.move_scores) :
         /\ last.move_scores[i][1] = last.move
         /\ last.move_scores[i][4] < MostSpace(last.move_scores)[4]

(***************************************************************************)
(* C6: when food-seeking is not triggered (health >= 30 or no food) and a  *)
(* safe move exists, choose_best_move returns the safe candidate with the  *)
(* largest space score, the first such in up, down, left, right order; of  *)
(* two candidates scoring 3 and 20 it returns the one scoring 20.          *)
(***************************************************************************)
C6_SpacePriority ==
    (SomeSafe /\ ~FoodSeeking(body))
        => /\ [i \in 1..Len(last.move_scores) |-> last.move_scores[i][1]]
                = [i \in 1..Len(last.safe_moves) |-> last.safe_moves[i][1]]
           /\ last.move = MostSpace(last.move_scores)[1]

C6_Witness ==
    /\ SomeSafe
    /\ ~FoodSeeking(body)
    /\ Len(last.move_scores) = 2
    /\ last.move_scores[1][4] = 20
    /\ last.move_scores[2][4] = 3
    /\ last.move = last.move_scores[1][1]

(***************************************************************************)
(* C7, as claimed: in the example snapshot all 4 moves are evaluated, none *)
(* is discarded for collision, and the chosen move is the first candidate  *)
(* of the largest space score.                                             *)
(***************************************************************************)
C7_Original ==
    (Called /\ body = Example)
        => /\ Len(last.move_scores) = 4
           /\ \A d \in Labels : Destination(body, d) \notin ObstacleSet(body)
           /\ last.move = MostSpace(last.move_scores)[1]

(***************************************************************************)
(* C7, amended: in the example snapshot down, whose destination (5,4) is   *)
(* the snake's own second segment, is discarded for collision; the three   *)
(* moves up, left and right are evaluated, each scoring 50; and the chosen *)
(* move is the first candidate of the largest space score, up.             *)
(***************************************************************************)
C7_Example ==
    (Called /\ body = Example)
        => /\ last.move_scores = << <<"up", 5, 6, 50>>, <<"left", 4, 5, 50>>,
                                    <<"right", 6, 5, 50>> >>
           /\ Destination(body, "down") = body.you.body[2]
           /\ Destination(body, "down") \in ObstacleSet(body)
           /\ last.move = MostSpace(last.move_scores)[1]
           /\ last.move = "up"

C7_Witness == Called /\ body = Example /\ last.move = "up"

C9_SafetyFilter ==
    Called =>
        /\ \A d \in Labels :
             Survives(body, d) <=>
                 \E i \in 1..Len(last.safe_moves) :
                     last.safe_moves[i] =
                         <<d, Destination(body, d).x, Destination(body, d).y>>
        /\ \A i \in 1..Len(last.safe_moves) : last.safe_moves[i][1] \in Labels
        /\ \A i, j \in 1..Len(last.safe_moves) :
             i < j => Rank(last.safe_moves[i][1]) < Rank(last.safe_moves[j][1])

\* A tail cell survives, next to a move lost to each of the three tests.
C9_Witness ==
    /\ Called
    /\ \E i \in 1..Len(last.safe_moves) :
         Pt(last.safe_moves[i][2], last.safe_moves[i][3]) \in TailCells(body)
    /\ \E d \in Labels : ~OnBoard(body, Destination(body, d))
    /\ \E d \in Labels : Destination(body, d) \in ObstacleSet(body)
    /\ \E d \in Labels :
         /\ OnBoard(body, Destination(body, d))
         /\ Destination(body, d) \notin ObstacleSet(body)
         /\ RiskyHeadToHead(body, Destination(body, d))

(***************************************************************************)
(* C10, as claimed: the score attached to every safe candidate is the      *)
(* capped flood-fill count from its destination over the Safety Filter's   *)
(* obstacle set, tail cells free.                                          *)
(***************************************************************************)
C10_Original ==
    Called =>
        \A i \in 1..Len(last.move_scores) :
            last.move_scores[i][4] =
                CappedCount(Pt(last.move_scores[i][2], last.move_scores[i][3]),
                            body.board.width, body.board.height, ObstacleSet(body))

(***************************************************************************)
(* C10, amended: the score attached to every safe candidate is the capped  *)
(* flood-fill count from its destination (counted even when it is a tail   *)
(* cell) over the set of every body segment of every snake, tails too.     *)
(***************************************************************************)
C10_ScoresOverAllSegments ==
    Called =>
        /\ Len(last.move_scores) = Len(last.safe_moves)
        /\ \A i \in 1..Len(last.move_scores) :
             /\ <<last.move_scores[i][1], last.move_scores[i][2],
                  last.move_scores[i][3]>> = last.safe_moves[i]
             /\ last.move_scores[i][4] =
                  CappedCount(Pt(last.move_scores[i][2], last.move_scores[i][3]),
                              body.board.width, body.board.height, AllSegments(body))

C10_Witness ==
    /\ Called
    /\ \E i \in 1..Len(last.move_scores) :
         LET start == Pt(last.move_scores[i][2], last.move_scores[i][3])
         IN  /\ start \in TailCells(body)
             /\ last.move_scores[i][4] =
                  CappedCount(start, body.board.width, body.board.height,
                              AllSegments(body))
             /\ last.move_scores[i][4] <
                  CappedCount(start, body.board.width, body.board.height,
                              ObstacleSet(body))

====
